---------------------------- MODULE Spec2Model ----------------------------
(***************************************************************************)
(* FHIR Data Converter & Analyst: the session state machine of App.tsx and *)
(* the Ollama gateway of services/geminiService.ts.                        *)
(*                                                                         *)
(* A text (a JavaScript string) is a sequence of chunks; a chunk is a      *)
(* one-character string for the texts the extraction code scans            *)
(* character by character, and a longer literal for the fixed parts of     *)
(* the texts the program only builds and shows (error messages, the        *)
(* greeting).  Template literals are concatenations of chunks.             *)
(*                                                                         *)
(* State that only selects what is drawn and gates no handler of the       *)
(* session is left out: activeTab (the chat panel is taken as drawn        *)
(* whenever the two tabs are; switching to it is always possible then),    *)
(* errorTab, copied, and the local state of the child components.          *)
(***************************************************************************)
EXTENDS Integers, Sequences, FiniteSets, Bags, TLC

(***************************************************************************)
(* Bounds of the model.                                                    *)
(***************************************************************************)
\* async continuations (handlers awaiting, timers pending) alive at once
MaxTasks == 2
\* chat turns the user starts between two clears of the chat history
MaxTurns == 1
\* fragments a generated raw text of the model is made of
MaxPieces == 4

(***************************************************************************)
(* Texts and JavaScript values.                                            *)
(***************************************************************************)
\* JS null in a text-valued slot; differs from every text the program builds
Null == <<"<null>">>

\* !x for a text-or-null x: null and the empty string are falsy
Falsy(x) == x = Null \/ x = <<>>

IsSpace(c) == c \in {" ", "\n", "\t"}

\* String.prototype.trim
RECURSIVE TrimStart(_)
TrimStart(s) ==
    IF s # <<>> /\ IsSpace(Head(s)) THEN TrimStart(Tail(s)) ELSE s

RECURSIVE TrimEnd(_)
TrimEnd(s) ==
    IF s # <<>> /\ IsSpace(s[Len(s)]) THEN TrimEnd(SubSeq(s, 1, Len(s) - 1)) ELSE s

Trim(s) == TrimEnd(TrimStart(s))

(***************************************************************************)
(* Errors.  An error value is its class name, its message and, for the     *)
(* transport error, the remediation instructions it carries (details).     *)
(***************************************************************************)
NoDetails == <<>>

NoError == [name |-> "null", message |-> <<>>, details |-> NoDetails]

OLLAMA_ENDPOINT == <<"http://localhost:11434">>

\* new OllamaServerError(message): the constructor wraps the diagnostic
OllamaServerError(message) ==
    [name |-> "OllamaServerError",
     details |-> NoDetails,
     message |-> <<"The Ollama server responded with an error.\n\nDetails: ">>
                 \o message
                 \o <<"\n\nThis usually means the model had an issue processing the request. This can happen with very large or complex files. Please try a different file or check your Ollama server logs for more information.">>]

\* new OllamaCorsError(): carries the remediation instructions (details)
OllamaCorsError ==
    [name |-> "OllamaCorsError",
     details |-> <<"cli", "desktop", "troubleshooting">>,
     message |-> <<"Could not connect to the Ollama server at ">>
                 \o OLLAMA_ENDPOINT \o <<".">>]

\* a TypeError raised by the runtime
TypeError(message) == [name |-> "TypeError", message |-> message, details |-> NoDetails]

\* new Error(message)
Error(message) == [name |-> "Error", message |-> message, details |-> NoDetails]

\* a SyntaxError raised by JSON.parse; its message is the engine's
SyntaxError == [name |-> "SyntaxError", message |-> <<"<JSON.parse message>">>, details |-> NoDetails]

\* the event FileReader hands to onerror: no Error
ProgressEvent == [name |-> "ProgressEvent", message |-> <<>>, details |-> NoDetails]

\* err instanceof OllamaCorsError / OllamaServerError / TypeError
IsCorsError(err) == err.name = "OllamaCorsError"
IsServerError(err) == err.name = "OllamaServerError"
IsTypeError(err) == err.name = "TypeError"

\* how an awaited call settles: it returns a value or throws an error
Return(t) == [kind |-> "return", text |-> t, err |-> NoError]
Throw(e) == [kind |-> "throw", text |-> <<>>, err |-> e]


(***************************************************************************)
(* String primitives of the JavaScript runtime (0-based indices as in JS). *)
(* A value that is used more than once is handed to a helper as an         *)
(* argument, so that it is written, and evaluated, once.                   *)
(***************************************************************************)
\* s[i] for a 0-based index i
At(s, i) == s[i + 1]

\* does pat occur in s at 0-based index i
OccursAt(s, pat, i) ==
    /\ i >= 0
    /\ i + Len(pat) <= Len(s)
    /\ \A k \in 1..Len(pat) : s[i + k] = pat[k]

Min(a, b) == IF a <= b THEN a ELSE b
Max(a, b) == IF a >= b THEN a ELSE b

\* the least and the greatest index of a set of hits, -1 when there is none
FirstOf(hits) == IF hits = {} THEN -1 ELSE CHOOSE i \in hits : \A j \in hits : i <= j
LastOf(hits) == IF hits = {} THEN -1 ELSE CHOOSE i \in hits : \A j \in hits : i >= j

\* String.prototype.indexOf(pat, from): first occurrence at or after from, else -1
IndexOfFrom(s, pat, from) ==
    FirstOf({i \in from..(Len(s) - Len(pat)) : OccursAt(s, pat, i)})

IndexOf(s, pat) == IndexOfFrom(s, pat, 0)

\* String.prototype.lastIndexOf(pat)
LastIndexOf(s, pat) ==
    LastOf({i \in 0..(Len(s) - Len(pat)) : OccursAt(s, pat, i)})

\* String.prototype.substring(a, b): arguments clamped to 0..length and
\* swapped when a > b
Substring(s, a, b) ==
    SubSeq(s, Min(Max(0, Min(a, Len(s))), Max(0, Min(b, Len(s)))) + 1,
              Max(Max(0, Min(a, Len(s))), Max(0, Min(b, Len(s)))))

(***************************************************************************)
(* cleanJsonOutput: the extraction heuristic.                              *)
(***************************************************************************)
\* the backtick character (the module's lexer admits none inside a string)
BT == "<backtick>"

FenceOpen == <<BT, BT, BT, "j", "s", "o", "n">>
FenceClose == <<BT, BT, BT>>

\* first index at or after i that holds no whitespace (Len(s) if none)
RECURSIVE SkipSpace(_, _)
SkipSpace(s, i) ==
    IF i < Len(s) /\ IsSpace(At(s, i)) THEN SkipSpace(s, i + 1) ELSE i

\* start of the whitespace run that ends just before index k, not below lo
RECURSIVE SpaceRunStart(_, _, _)
SpaceRunStart(s, k, lo) ==
    IF k > lo /\ IsSpace(At(s, k - 1)) THEN SpaceRunStart(s, k - 1, lo) ELSE k

\* a null match
NoMatch == [matched |-> FALSE, group |-> <<>>]

\* the group, given where it starts and where the closing fence is
FenceGroup(rawJson, from, close) ==
    IF close = -1 THEN NoMatch
    ELSE [matched |-> TRUE,
          group |-> Substring(rawJson, from, SpaceRunStart(rawJson, close, from))]

\* the match, given where the text after the opening fence and \s* starts
FenceFrom(rawJson, from) ==
    FenceGroup(rawJson, from, IndexOfFrom(rawJson, FenceClose, from))

\* the match, given the index of the first opening fence
FenceAt(rawJson, open) ==
    IF open = -1 THEN NoMatch
    ELSE FenceFrom(rawJson, SkipSpace(rawJson, open + Len(FenceOpen)))

\* rawJson.match(/```json\s*([\s\S]*?)\s*```/): the leftmost opening fence
\* that has a closing fence after it; \s* takes the whole whitespace run
\* and the lazy group stops before the whitespace run that precedes the
\* first closing fence.
FenceMatch(rawJson) == FenceAt(rawJson, IndexOf(rawJson, FenceOpen))

\* cleanJsonOutput after the fence was not found, given the four indices
BracketSpan(rawJson, firstBracket, firstSquare, lastBracket, lastSquare) ==
    LET start == IF firstBracket = -1 THEN firstSquare
                 ELSE IF firstSquare = -1 THEN firstBracket
                 ELSE Min(firstBracket, firstSquare)
        end == Max(lastBracket, lastSquare)
    IN IF firstBracket = -1 /\ firstSquare = -1
       THEN Throw(Error(<<"No JSON object found in the AI response.">>))
       ELSE IF start = -1 \/ end = -1
       THEN Throw(Error(<<"Valid JSON structure not found in the AI response.">>))
       ELSE Return(Substring(rawJson, start, end + 1))

\* mutant: cleanJsonOutput that ignores a fenced block
CleanMatched_NoFence(rawJson, match) ==
    BracketSpan(rawJson,
                IndexOf(rawJson, <<"{">>), IndexOf(rawJson, <<"[">>),
                LastIndexOf(rawJson, <<"}">>), LastIndexOf(rawJson, <<"]">>))

\* cleanJsonOutput, given the match of the fence
CleanMatched(rawJson, match) ==
    IF match.matched /\ match.group # <<>>
    THEN Return(Trim(match.group))
    ELSE BracketSpan(rawJson,
                     IndexOf(rawJson, <<"{">>), IndexOf(rawJson, <<"[">>),
                     LastIndexOf(rawJson, <<"}">>), LastIndexOf(rawJson, <<"]">>))

cleanJsonOutput(rawJson) == CleanMatched(rawJson, FenceMatch(rawJson))

(***************************************************************************)
(* JSON.parse: a recogniser of the JSON grammar (RFC 8259).  Every         *)
(* operator takes a 0-based index and gives the index after what it        *)
(* recognised, or -1.                                                      *)
(***************************************************************************)
IsJsonSpace(c) == c \in {" ", "\n", "\t", "\r"}
IsDigit(c) == c \in {"0", "1", "2", "3", "4", "5", "6", "7", "8", "9"}
IsHex(c) == IsDigit(c) \/ c \in {"a", "b", "c", "d", "e", "f", "A", "B", "C", "D", "E", "F"}

\* is c the character at index i
Has(s, i, c) == i >= 0 /\ i < Len(s) /\ s[i + 1] = c

RECURSIVE SkipJsonSpace(_, _)
SkipJsonSpace(s, i) ==
    IF i >= 0 /\ i < Len(s) /\ IsJsonSpace(s[i + 1]) THEN SkipJsonSpace(s, i + 1) ELSE i

RECURSIVE DigitsEnd(_, _)
DigitsEnd(s, i) ==
    IF i >= 0 /\ i < Len(s) /\ IsDigit(s[i + 1]) THEN DigitsEnd(s, i + 1) ELSE i

\* the end of a run of at least one digit that starts at i
SomeDigits(i, j) == IF i >= 0 /\ j > i THEN j ELSE -1

\* i is the index after the opening quote
RECURSIVE StringEnd(_, _)
StringEnd(s, i) ==
    IF i < 0 \/ i >= Len(s) THEN -1
    ELSE IF s[i + 1] = "\"" THEN i + 1
    ELSE IF s[i + 1] \in {"\n", "\t", "\r"} THEN -1
    ELSE IF s[i + 1] # "\\" THEN StringEnd(s, i + 1)
    ELSE IF i + 1 >= Len(s) THEN -1
    ELSE IF s[i + 2] \in {"\"", "\\", "/", "b", "f", "n", "r", "t"} THEN StringEnd(s, i + 2)
    ELSE IF s[i + 2] = "u" /\ i + 5 < Len(s) /\ \A k \in 3..6 : IsHex(s[i + k])
    THEN StringEnd(s, i + 6)
    ELSE -1

\* exponent part, c the index after the fraction
ExponentEnd(s, c) ==
    IF c = -1 THEN -1
    ELSE IF ~(Has(s, c, "e") \/ Has(s, c, "E")) THEN c
    ELSE IF Has(s, c + 1, "+") \/ Has(s, c + 1, "-")
    THEN SomeDigits(c + 2, DigitsEnd(s, c + 2))
    ELSE SomeDigits(c + 1, DigitsEnd(s, c + 1))

\* fraction part, b the index after the integer part
FractionEnd(s, b) ==
    IF b = -1 THEN -1
    ELSE IF Has(s, b, ".") THEN SomeDigits(b + 1, DigitsEnd(s, b + 1))
    ELSE b

\* integer part, a the index of its first digit
IntegerEnd(s, a) ==
    IF a >= Len(s) \/ ~IsDigit(s[a + 1]) THEN -1
    ELSE IF s[a + 1] = "0" THEN a + 1
    ELSE DigitsEnd(s, a)

NumberEnd(s, i) ==
    ExponentEnd(s, FractionEnd(s, IntegerEnd(s, IF Has(s, i, "-") THEN i + 1 ELSE i)))

RECURSIVE ValueEnd(_, _)
RECURSIVE ListEnd(_, _, _)

\* after an element of an array or a member of an object that ended at v
\* (close is "]" or "}"): the closing bracket, or a comma and the rest
AfterItem(s, k, close) ==
    IF k < 0 \/ k >= Len(s) THEN -1
    ELSE IF s[k + 1] = close THEN k + 1
    ELSE IF s[k + 1] = "," THEN ListEnd(s, SkipJsonSpace(s, k + 1), close)
    ELSE -1

\* the value of a member whose name ended at e
MemberValueEnd(s, c) ==
    IF Has(s, c, ":") THEN ValueEnd(s, SkipJsonSpace(s, c + 1)) ELSE -1

\* i is the index of the first character of an element (close = "]") or
\* of a member (close = "}")
ListEnd(s, i, close) ==
    IF close = "]"
    THEN AfterItem(s, SkipJsonSpace(s, ValueEnd(s, i)), close)
    ELSE IF Has(s, i, "\"")
    THEN AfterItem(s, SkipJsonSpace(s, MemberValueEnd(s, SkipJsonSpace(s, StringEnd(s, i + 1)))), close)
    ELSE -1

\* after an opening bracket, j the index of the first character after it
\* that is no whitespace
BracketedEnd(s, j, close) ==
    IF Has(s, j, close) THEN j + 1 ELSE ListEnd(s, j, close)

\* i is the index of the first character of the value
ValueEnd(s, i) ==
    IF i < 0 \/ i >= Len(s) THEN -1
    ELSE IF s[i + 1] = "{" THEN BracketedEnd(s, SkipJsonSpace(s, i + 1), "}")
    ELSE IF s[i + 1] = "[" THEN BracketedEnd(s, SkipJsonSpace(s, i + 1), "]")
    ELSE IF s[i + 1] = "\"" THEN StringEnd(s, i + 1)
    ELSE IF s[i + 1] = "-" \/ IsDigit(s[i + 1]) THEN NumberEnd(s, i)
    ELSE IF OccursAt(s, <<"t", "r", "u", "e">>, i) THEN i + 4
    ELSE IF OccursAt(s, <<"f", "a", "l", "s", "e">>, i) THEN i + 5
    ELSE IF OccursAt(s, <<"n", "u", "l", "l">>, i) THEN i + 4
    ELSE -1

\* does JSON.parse(s) return (rather than throw a SyntaxError)
ParsesAsJson(s) ==
    SkipJsonSpace(s, ValueEnd(s, SkipJsonSpace(s, 0))) = Len(s)

\* the text without the whitespace between its JSON tokens
RECURSIVE Tokens(_, _, _)
Tokens(s, i, inString) ==
    IF i >= Len(s) THEN <<>>
    ELSE IF inString /\ s[i + 1] = "\\" /\ i + 1 < Len(s)
    THEN <<s[i + 1], s[i + 2]>> \o Tokens(s, i + 2, TRUE)
    ELSE IF s[i + 1] = "\"" THEN <<s[i + 1]>> \o Tokens(s, i + 1, ~inString)
    ELSE IF ~inString /\ IsJsonSpace(s[i + 1]) THEN Tokens(s, i + 1, FALSE)
    ELSE <<s[i + 1]>> \o Tokens(s, i + 1, inString)

\* JSON.parse(s): the parsed value is represented by its token text
JSONParse(s) ==
    IF ParsesAsJson(s) THEN Return(Tokens(s, 0, FALSE))
    ELSE Throw(SyntaxError)

(***************************************************************************)
(* The Model Gateway: callOllama and the three services built on it.       *)
(*                                                                         *)
(* What fetch delivers is either no response at all (the promise rejects   *)
(* with a TypeError) or a Response with a status, a status text and a      *)
(* body.  A body is the JSON object Ollama sends: its `response` and       *)
(* `error` fields, Null when the field is absent.                          *)
(***************************************************************************)
NoBody == [response |-> Null, error |-> Null]

NoResponse == [kind |-> "noResponse", status |-> 0, statusText |-> "", body |-> NoBody]

Response(status, statusText, body) ==
    [kind |-> "response", status |-> status, statusText |-> statusText, body |-> body]

\* Response.ok
ResponseOk(response) == response.status >= 200 /\ response.status <= 299

\* `${response.status} ${response.statusText}`
StatusLine(response) == <<ToString(response.status), " ", response.statusText>>

\* response?.trim(): a Response has no trim method, so the call of the
\* undefined property raises a TypeError
ResponseTrim(response) ==
    Throw(TypeError(<<"response.trim is not a function">>))

\* the try block of callOllama, given what fetch delivered
callOllamaTry(fetched) ==
    IF fetched.kind = "noResponse"
    THEN Throw(TypeError(<<"Failed to fetch">>))
    ELSE IF ~ResponseOk(fetched)
    THEN Throw(OllamaServerError(StatusLine(fetched)))
    ELSE LET result == ResponseTrim(fetched)
         IN IF result.kind = "throw" THEN result
            ELSE IF ~Falsy(fetched.body.error)
            THEN Throw(OllamaServerError(<<"Ollama API Error: ">> \o fetched.body.error))
            ELSE IF fetched.body.response = Null \/ Trim(fetched.body.response) = <<>>
            THEN Return(<<>>)
            ELSE Return(Trim(fetched.body.response))

\* mutant: a catch block that takes every failure for a connection failure
callOllamaCatch_AllCors(err) ==
    Throw(OllamaCorsError)

\* the catch block of callOllama
callOllamaCatch(err) ==
    IF IsServerError(err) THEN Throw(err)
    ELSE IF IsTypeError(err) THEN Throw(OllamaCorsError)
    ELSE Throw(err)

callOllama(fetched) ==
    LET tried == callOllamaTry(fetched)
    IN IF tried.kind = "throw" THEN callOllamaCatch(tried.err) ELSE tried

\* the try block of testOllamaConnection: await fetch(OLLAMA_ENDPOINT), then
\* return true whatever the status of the response
testOllamaConnectionTry(fetched) ==
    IF fetched.kind = "noResponse"
    THEN Throw(TypeError(<<"Failed to fetch">>))
    ELSE Return(<<"true">>)

\* mutant: a probe that takes only a success status for a connection
testOllamaConnection_OkOnly(fetched) ==
    IF fetched.kind = "response" /\ ResponseOk(fetched)
    THEN Return(<<"true">>)
    ELSE Return(<<"false">>)

\* testOllamaConnection: the catch block answers false to every failure
testOllamaConnection(fetched) ==
    LET tried == testOllamaConnectionTry(fetched)
    IN IF tried.kind = "throw" THEN Return(<<"false">>) ELSE tried

\* the catch block shared by the three services: transport and server
\* errors pass, anything else is wrapped in a new Error
ServiceCatch(err, prefix) ==
    IF IsCorsError(err) \/ IsServerError(err) THEN Throw(err)
    ELSE Throw(Error(prefix \o err.message))

\* mutant: convertToFhir without its JSON.parse of the extracted text
convertToFhir_Unvalidated(called) ==
    LET cleaned == IF called.kind = "throw" THEN called ELSE cleanJsonOutput(called.text)
    IN IF cleaned.kind = "throw"
       THEN ServiceCatch(cleaned.err, <<"The AI model failed to generate a valid FHIR resource. Details: ">>)
       ELSE Return(cleaned.text)

\* convertToFhir, given how its callOllama call settled
convertToFhir(called) ==
    LET cleaned == IF called.kind = "throw" THEN called ELSE cleanJsonOutput(called.text)
        parsed == IF cleaned.kind = "throw" THEN cleaned ELSE JSONParse(cleaned.text)
    IN IF parsed.kind = "throw"
       THEN ServiceCatch(parsed.err, <<"The AI model failed to generate a valid FHIR resource. Details: ">>)
       ELSE Return(cleaned.text)

\* generateAnalytics, given how its callOllama call settled
generateAnalytics(called) ==
    LET cleaned == IF called.kind = "throw" THEN called ELSE cleanJsonOutput(called.text)
        parsed == IF cleaned.kind = "throw" THEN cleaned ELSE JSONParse(cleaned.text)
    IN IF parsed.kind = "throw"
       THEN ServiceCatch(parsed.err, <<"The AI model failed to generate valid analytics. Details: ">>)
       ELSE parsed

\* mutant: the whole history given as the previous conversation
PreviousConversation_Whole(history) ==
    history

\* history.slice(0, -1): the messages before the last one
PreviousConversation(history) ==
    SubSeq(history, 1, Len(history) - 1)

\* the parts answerQuestion puts into its prompt: the record, the previous
\* conversation oldest first, and the text of the last message
answerQuestionPrompt(record, history) ==
    [data |-> record,
     previous |-> PreviousConversation(history),
     userQuestion |-> history[Len(history)].text]

\* answerQuestion, given how its callOllama call settled
answerQuestion(called) ==
    IF called.kind = "throw"
    THEN ServiceCatch(called.err, <<"The AI model failed to answer the question. Details: ">>)
    ELSE called

(***************************************************************************)
(* The inputs of the model.                                                *)
(***************************************************************************)
\* the files the user can select (File.name)
Files == {"a.json"}
NoFile == "null"

\* the texts the model returns in the `response` field
GatewayTexts ==
    { <<"o", "k", " ", "{", "}">>,     \* prose around a JSON object
      <<"{", "x", "}">>,               \* brackets around what is no JSON
      <<"o", "k">> }                   \* no bracket at all

\* the texts the model returns as an answer to a question
AnswerTexts == { <<"n", "o">> }

\* what fetch delivers to a call made by the session
SessionFetched ==
    { NoResponse,
      Response(500, "Internal Server Error", NoBody),
      Response(200, "OK", [response |-> <<"{", "}">>, error |-> Null]) }

\* How a callOllama call of the session settles.  callOllama as coded
\* settles only by throwing a transport or a server error; the handlers of
\* App.tsx are checked against every settlement its type Promise<string>
\* allows (a text, or any error: callOllama re-throws what it does not
\* classify), so that the paths after a successful call are covered too.
Failures ==
    {callOllama(fetched) : fetched \in SessionFetched}
        \cup {Throw(Error(<<"unexpected">>))}

\* the settlements of the calls of convertToFhir and generateAnalytics
Settlements == Failures \cup {Return(t) : t \in GatewayTexts}

\* the settlements of the calls of answerQuestion
AnswerSettlements == Failures \cup {Return(t) : t \in AnswerTexts}

\* what the user types into the chat input
ChatInputs == { <<"q">>, <<" ", "q", " ">>, <<" ">>, <<>> }

(***************************************************************************)
(* The state of App (one useState slot each) and the asynchronous          *)
(* continuations alive: handlers suspended at an await and pending timers. *)
(***************************************************************************)
VARIABLES
    appState,       \* AppState
    error,          \* Error | null
    ollamaError,    \* OllamaCorsError | null
    file,           \* File | null
    fhirJson,       \* string | null
    analyticsData,  \* AnalyticsData | null
    chatHistory,    \* ChatMessage[]
    isSaved,        \* boolean
    testState,      \* 'idle' | 'testing' | 'success' | 'failed'
    tasks,          \* bag of the continuations alive
    lastEvent,      \* the handler or continuation that ran last
    failedIn,       \* the phase in which the stored failure happened
    gwFetched,      \* gateway check: what fetch delivered
    gwService,      \* gateway check: the service that makes the call
    gwCalled,       \* gateway check: how callOllama settled
    gwResult,       \* gateway check: how the service settled
    exRaw,          \* extraction check: the raw text callOllama returned
    exCleaned,      \* extraction check: how cleanJsonOutput(raw) settled
    exRecleaned,    \* extraction check: cleanJsonOutput of its own result
    exConverted     \* extraction check: how convertToFhir settled

sessionVars ==
    <<appState, error, ollamaError, file, fhirJson, analyticsData,
      chatHistory, isSaved, testState>>

gatewayVars == <<gwFetched, gwService, gwCalled, gwResult>>

extractVars == <<exRaw, exCleaned, exRecleaned, exConverted>>

\* the variables of the checks of the gateway and of the extraction
checkVars == <<gatewayVars, extractVars>>

vars == <<sessionVars, tasks, lastEvent, failedIn, gatewayVars, extractVars>>

AppStates ==
    {"IDLE", "CONVERTING", "CONVERTED", "ANALYZING", "SAVED", "CHATTING", "ERROR"}

Pending == [kind |-> "pending", text |-> <<>>, err |-> NoError]

\* a continuation: the values its closure captured, and whether the
\* session was reset after it started
Task(kind, f, record) ==
    [kind |-> kind, file |-> f, record |-> record, stale |-> FALSE]

\* the arguments of a call of answerQuestion; NoArgs for every other event
NoArgs == [fhirJson |-> Null, history |-> <<>>]

Event(op, settled) == [op |-> op, settled |-> settled, args |-> NoArgs]

\* handleSendMessage's call answerQuestion(fhirJson, [...chatHistory, userMessage])
Asked(record, history) ==
    [op |-> "handleSendMessage", settled |-> Pending,
     args |-> [fhirJson |-> record, history |-> history]]

Message(sender, text) == [sender |-> sender, text |-> text]

initialBotMessage ==
    Message("bot", <<"Data has been processed and is ready for analysis. I am an AI assistant ready to answer questions about this FHIR data. What would you like to know?">>)

InFlight(kind) == {t \in BagToSet(tasks) : t.kind = kind}

Started(t) == tasks (+) SetToBag({t})
Finished(t) == tasks (-) SetToBag({t})
Replaced(t, u) == (tasks (-) SetToBag({t})) (+) SetToBag({u})

\* the number of callOllama calls whose fetch has not settled
GatewayCalls ==
    LET calls == {t \in BagToSet(tasks) : t.kind \in {"convert", "analyze", "chat"}}
    IN BagCardinality([t \in calls |-> tasks[t]])

(***************************************************************************)
(* The session: App.tsx.                                                   *)
(***************************************************************************)
GatewayIdle ==
    /\ gwFetched = NoResponse
    /\ gwService = "none"
    /\ gwCalled = Pending
    /\ gwResult = Pending

SessionInit ==
    /\ appState = "IDLE"
    /\ error = NoError
    /\ ollamaError = NoError
    /\ file = NoFile
    /\ fhirJson = Null
    /\ analyticsData = Null
    /\ chatHistory = <<>>
    /\ isSaved = FALSE
    /\ testState = "idle"
    /\ tasks = EmptyBag
    /\ lastEvent = Event("init", Pending)
    /\ failedIn = "none"

\* no extraction under check
ExtractIdle ==
    /\ exRaw = Null
    /\ exCleaned = Pending
    /\ exRecleaned = Pending
    /\ exConverted = Pending

Init == SessionInit /\ GatewayIdle /\ ExtractIdle

\* every continuation alive now belongs to a session that was reset
MarkedStale ==
    LET marked == {[t EXCEPT !.stale = TRUE] : t \in BagToSet(tasks)}
        Count(u) == IF u \in BagToSet(tasks) THEN tasks[u] ELSE 0
    IN [u \in marked |-> Count(u) + Count([u EXCEPT !.stale = FALSE])]

\* mutant: a reset that forgets the conversation
handleReset_KeepsChat ==
    /\ appState # "IDLE"
    /\ appState' = "IDLE"
    /\ error' = NoError
    /\ ollamaError' = NoError
    /\ file' = NoFile
    /\ fhirJson' = Null
    /\ analyticsData' = Null
    /\ chatHistory' = chatHistory
    /\ isSaved' = FALSE
    /\ testState' = "idle"
    /\ tasks' = MarkedStale
    /\ lastEvent' = Event("handleReset", Pending)
    /\ failedIn' = "none"
    /\ UNCHANGED checkVars

\* the header's and the error screen's "Start Over" button
handleReset ==
    /\ appState # "IDLE"
    /\ appState' = "IDLE"
    /\ error' = NoError
    /\ ollamaError' = NoError
    /\ file' = NoFile
    /\ fhirJson' = Null
    /\ analyticsData' = Null
    /\ chatHistory' = <<>>
    /\ isSaved' = FALSE
    /\ testState' = "idle"
    /\ tasks' = MarkedStale
    /\ lastEvent' = Event("handleReset", Pending)
    /\ failedIn' = "none"
    /\ UNCHANGED checkVars

\* err instanceof Error
IsError(err) ==
    err.name \in {"Error", "TypeError", "SyntaxError", "OllamaCorsError", "OllamaServerError"}

\* mutant: handleError without its instanceof tests
handleError_Unclassified(err) ==
    /\ error' = Error(<<"An unknown error occurred.">>)
    /\ ollamaError' = ollamaError
    /\ appState' = "ERROR"
    /\ failedIn' = IF appState \in {"CONVERTING", "ANALYZING"} THEN appState ELSE "other"

\* mutant: handleError that stores the error and leaves the phase
handleError_KeepsPhase(err) ==
    /\ IF IsCorsError(err)
       THEN ollamaError' = err /\ error' = error
       ELSE /\ error' = IF IsError(err) THEN err
                        ELSE Error(<<"An unknown error occurred.">>)
            /\ ollamaError' = ollamaError
    /\ appState' = appState
    /\ failedIn' = failedIn

handleError(err) ==
    /\ IF IsCorsError(err)
       THEN ollamaError' = err /\ error' = error
       ELSE IF IsServerError(err)
       THEN error' = err /\ ollamaError' = ollamaError
       ELSE /\ error' = IF IsError(err) THEN err
                        ELSE Error(<<"An unknown error occurred.">>)
            /\ ollamaError' = ollamaError
    /\ appState' = "ERROR"
    /\ failedIn' = IF appState \in {"CONVERTING", "ANALYZING"} THEN appState ELSE "other"

\* handleFileConvert up to its first await
ConvertStart(selectedFile) ==
    /\ file' = selectedFile
    /\ appState' = "CONVERTING"
    /\ error' = NoError
    /\ ollamaError' = NoError
    /\ testState' = "idle"
    /\ isSaved' = FALSE
    /\ chatHistory' = <<>>
    /\ failedIn' = "none"
    /\ UNCHANGED <<fhirJson, analyticsData>>

\* FileUpload is rendered: the user drops or picks a file
FileSelect(selectedFile) ==
    /\ appState = "IDLE"
    /\ BagCardinality(tasks) < MaxTasks
    /\ ConvertStart(selectedFile)
    /\ tasks' = Started(Task("read", selectedFile, Null))
    /\ lastEvent' = Event("handleFileConvert", Pending)
    /\ UNCHANGED checkVars

\* convertFileToBase64 resolves (reader.onload): convertToFhir makes its call
FileReadResolves(t) ==
    /\ t \in InFlight("read")
    /\ tasks' = Replaced(t, [t EXCEPT !.kind = "convert"])
    /\ lastEvent' = Event("convertFileToBase64", Pending)
    /\ UNCHANGED <<sessionVars, failedIn, checkVars>>

\* convertFileToBase64 rejects (reader.onerror) with the reader's event
FileReadRejects(t) ==
    /\ t \in InFlight("read")
    /\ handleError(ProgressEvent)
    /\ tasks' = Finished(t)
    /\ lastEvent' = Event("convertFileToBase64", Throw(ProgressEvent))
    /\ UNCHANGED <<file, fhirJson, analyticsData, chatHistory, isSaved, testState>>
    /\ UNCHANGED checkVars

\* handleFileConvert after convertToFhir settled
ConvertSettles(t, called) ==
    /\ t \in InFlight("convert")
    /\ LET generated == convertToFhir(called)
           validated == IF generated.kind = "throw" THEN generated
                        ELSE JSONParse(generated.text)
       IN IF validated.kind = "throw"
          THEN /\ handleError(validated.err)
               /\ UNCHANGED fhirJson
          ELSE /\ fhirJson' = generated.text
               /\ appState' = "CONVERTED"
               /\ UNCHANGED <<error, ollamaError, failedIn>>
    /\ tasks' = Finished(t)
    /\ lastEvent' = Event("convertToFhir", called)
    /\ UNCHANGED <<file, analyticsData, chatHistory, isSaved, testState>>
    /\ UNCHANGED checkVars

\* mutant: the result view rendered in every phase once a record is stored
ResultShown_AnyPhase ==
    ~Falsy(fhirJson)

\* the result view (FhirViewer and the right-hand panel) is rendered
ResultShown ==
    /\ appState \in {"CONVERTED", "SAVED", "CHATTING"}
    /\ ~Falsy(fhirJson)

\* FhirViewer's save button is rendered and not disabled
SaveEnabled == ResultShown /\ ~isSaved

\* handleSaveToFhir up to its await
handleSaveToFhir ==
    /\ SaveEnabled
    /\ BagCardinality(tasks) < MaxTasks
    /\ ~Falsy(fhirJson)
    /\ appState' = "ANALYZING"
    /\ tasks' = Started(Task("analyze", NoFile, fhirJson))
    /\ lastEvent' = Event("handleSaveToFhir", Pending)
    /\ UNCHANGED failedIn
    /\ UNCHANGED <<error, ollamaError, file, fhirJson, analyticsData,
                   chatHistory, isSaved, testState>>
    /\ UNCHANGED checkVars

\* mutant: a successful analysis that leaves the conversation as it was
AnalyzeSettles_NoGreeting(t, called) ==
    /\ t \in InFlight("analyze")
    /\ LET data == generateAnalytics(called)
       IN IF data.kind = "throw"
          THEN /\ handleError(data.err)
               /\ UNCHANGED <<analyticsData, isSaved, chatHistory>>
          ELSE /\ analyticsData' = data.text
               /\ isSaved' = TRUE
               /\ appState' = "SAVED"
               /\ chatHistory' = chatHistory
               /\ UNCHANGED <<error, ollamaError, failedIn>>
    /\ tasks' = Finished(t)
    /\ lastEvent' = Event("generateAnalytics", called)
    /\ UNCHANGED <<file, fhirJson, testState>>
    /\ UNCHANGED checkVars

\* handleSaveToFhir after generateAnalytics settled
AnalyzeSettles(t, called) ==
    /\ t \in InFlight("analyze")
    /\ LET data == generateAnalytics(called)
       IN IF data.kind = "throw"
          THEN /\ handleError(data.err)
               /\ UNCHANGED <<analyticsData, isSaved, chatHistory>>
          ELSE /\ analyticsData' = data.text
               /\ isSaved' = TRUE
               /\ appState' = "SAVED"
               /\ chatHistory' = <<initialBotMessage>>
               /\ UNCHANGED <<error, ollamaError, failedIn>>
    /\ tasks' = Finished(t)
    /\ lastEvent' = Event("generateAnalytics", called)
    /\ UNCHANGED <<file, fhirJson, testState>>
    /\ UNCHANGED checkVars

\* the chat and analytics tabs are rendered
TabsShown == ResultShown /\ isSaved

\* Chatbot is rendered and not loading
SendEnabled == TabsShown /\ appState # "CHATTING"

UserTurns == Cardinality({i \in 1..Len(chatHistory) : chatHistory[i].sender = "user"})

\* Chatbot.handleSubmit calling handleSendMessage, up to its await
handleSendMessage(input) ==
    /\ SendEnabled
    /\ Trim(input) # <<>>
    /\ UserTurns < MaxTurns
    /\ BagCardinality(tasks) < MaxTasks
    /\ ~Falsy(fhirJson)
    /\ LET userMessage == Message("user", Trim(input))
       IN /\ chatHistory' = Append(chatHistory, userMessage)
          /\ tasks' = Started(Task("chat", NoFile, fhirJson))
    /\ appState' = "CHATTING"
    /\ lastEvent' = Asked(fhirJson, Append(chatHistory, Message("user", Trim(input))))
    /\ UNCHANGED failedIn
    /\ UNCHANGED <<error, ollamaError, file, fhirJson, analyticsData,
                   isSaved, testState>>
    /\ UNCHANGED checkVars

\* the text handleSendMessage appends once answerQuestion settled
ChatReplyText(answer) ==
    IF answer.kind = "return" THEN answer.text
    ELSE IF IsError(answer.err) THEN answer.err.message
    ELSE <<"Sorry, I encountered an error while processing your request.">>

\* mutant: a chat failure handed to handleError like the other failures
ChatSettles_GlobalError(t, called) ==
    /\ t \in InFlight("chat")
    /\ LET answer == answerQuestion(called)
       IN IF answer.kind = "throw"
          THEN /\ handleError(answer.err)
               /\ UNCHANGED chatHistory
          ELSE /\ chatHistory' = Append(chatHistory, Message("bot", answer.text))
               /\ appState' = "SAVED"
               /\ UNCHANGED <<error, ollamaError, failedIn>>
    /\ tasks' = Finished(t)
    /\ lastEvent' = Event("answerQuestion", called)
    /\ UNCHANGED <<file, fhirJson, analyticsData, isSaved, testState>>
    /\ UNCHANGED checkVars

\* mutant: a catch block that shows the failure but leaves the phase
ChatSettles_StaysChatting(t, called) ==
    /\ t \in InFlight("chat")
    /\ chatHistory' = Append(chatHistory, Message("bot", ChatReplyText(answerQuestion(called))))
    /\ appState' = IF answerQuestion(called).kind = "throw" THEN appState ELSE "SAVED"
    /\ tasks' = Finished(t)
    /\ lastEvent' = Event("answerQuestion", called)
    /\ UNCHANGED <<error, ollamaError, file, fhirJson, analyticsData,
                   isSaved, testState, failedIn>>
    /\ UNCHANGED checkVars

\* handleSendMessage after answerQuestion settled
ChatSettles(t, called) ==
    /\ t \in InFlight("chat")
    /\ chatHistory' = Append(chatHistory, Message("bot", ChatReplyText(answerQuestion(called))))
    /\ appState' = "SAVED"
    /\ tasks' = Finished(t)
    /\ lastEvent' = Event("answerQuestion", called)
    /\ UNCHANGED <<error, ollamaError, file, fhirJson, analyticsData,
                   isSaved, testState, failedIn>>
    /\ UNCHANGED checkVars

\* the connection guide's test button is rendered and not disabled
TestEnabled ==
    /\ appState = "ERROR"
    /\ ollamaError # NoError
    /\ testState \notin {"testing", "success"}

\* handleTestConnection up to its await
handleTestConnection ==
    /\ TestEnabled
    /\ BagCardinality(tasks) < MaxTasks
    /\ testState' = "testing"
    /\ tasks' = Started(Task("probe", file, Null))
    /\ lastEvent' = Event("handleTestConnection", Pending)
    /\ UNCHANGED failedIn
    /\ UNCHANGED <<appState, error, ollamaError, file, fhirJson, analyticsData,
                   chatHistory, isSaved>>
    /\ UNCHANGED checkVars

\* handleTestConnection after testOllamaConnection settled: it arms a timer
ProbeSettles(t, fetched) ==
    /\ t \in InFlight("probe")
    /\ IF testOllamaConnection(fetched) = Return(<<"true">>)
       THEN /\ testState' = "success"
            /\ tasks' = Replaced(t, [t EXCEPT !.kind = "retryTimer"])
       ELSE /\ testState' = "failed"
            /\ tasks' = Replaced(t, [t EXCEPT !.kind = "idleTimer", !.file = NoFile])
    /\ lastEvent' = Event("testOllamaConnection", Pending)
    /\ UNCHANGED failedIn
    /\ UNCHANGED <<appState, error, ollamaError, file, fhirJson, analyticsData,
                   chatHistory, isSaved>>
    /\ UNCHANGED checkVars

\* the 1000 ms timer: if (file) handleFileConvert(file), file as captured
RetryTimerFires(t) ==
    /\ t \in InFlight("retryTimer")
    /\ IF t.file # NoFile
       THEN /\ ConvertStart(t.file)
            /\ tasks' = Replaced(t, Task("read", t.file, Null))
       ELSE /\ tasks' = Finished(t)
            /\ UNCHANGED <<sessionVars, failedIn>>
    /\ lastEvent' = Event("retryTimer", Pending)
    /\ UNCHANGED checkVars

\* the 2000 ms timer: setTestState('idle')
IdleTimerFires(t) ==
    /\ t \in InFlight("idleTimer")
    /\ testState' = "idle"
    /\ tasks' = Finished(t)
    /\ lastEvent' = Event("idleTimer", Pending)
    /\ UNCHANGED failedIn
    /\ UNCHANGED <<appState, error, ollamaError, file, fhirJson, analyticsData,
                   chatHistory, isSaved>>
    /\ UNCHANGED checkVars

Next ==
    \/ handleReset
    \/ \E selectedFile \in Files : FileSelect(selectedFile)
    \/ \E t \in BagToSet(tasks) : FileReadResolves(t)
    \/ \E t \in BagToSet(tasks) : FileReadRejects(t)
    \/ \E t \in BagToSet(tasks), called \in Settlements : ConvertSettles(t, called)
    \/ handleSaveToFhir
    \/ \E t \in BagToSet(tasks), called \in Settlements : AnalyzeSettles(t, called)
    \/ \E input \in ChatInputs : handleSendMessage(input)
    \/ \E t \in BagToSet(tasks), called \in AnswerSettlements : ChatSettles(t, called)
    \/ handleTestConnection
    \/ \E t \in BagToSet(tasks), fetched \in SessionFetched : ProbeSettles(t, fetched)
    \/ \E t \in BagToSet(tasks) : RetryTimerFires(t)
    \/ \E t \in BagToSet(tasks) : IdleTimerFires(t)

Spec == Init /\ [][Next]_vars

\* the records handleFileConvert can store
Records ==
    {generated.text : generated \in
        {g \in {convertToFhir(called) : called \in Settlements} : g.kind = "return"}}

\* the continuations a handler can leave at an await
Awaiting ==
    {Task(kind, f, Null) : kind \in {"read", "convert"}, f \in Files}
        \cup {Task(kind, NoFile, r) : kind \in {"analyze", "chat"}, r \in Records}

\* the continuations that can be alive, of this session or of a reset one
TaskValues == Awaiting \cup {[t EXCEPT !.stale = TRUE] : t \in Awaiting}

\* an await of a handler settles: the file is read or the read fails, the
\* call of a service resolves or rejects
AwaitSettles(t) ==
    \/ FileReadResolves(t)
    \/ FileReadRejects(t)
    \/ \E called \in Settlements : ConvertSettles(t, called)
    \/ \E called \in Settlements : AnalyzeSettles(t, called)
    \/ \E called \in AnswerSettlements : ChatSettles(t, called)

\* the session when every file read and every call of a service settles
SpecLive ==
    /\ Init
    /\ [][Next]_vars
    /\ \A t \in TaskValues : WF_vars(AwaitSettles(t))

(***************************************************************************)
(* The gateway on its own: callOllama and the services applied to          *)
(* everything fetch can deliver.                                           *)
(***************************************************************************)
Statuses == {200, 204, 404, 500}
StatusTexts == {"", "OK", "Internal Server Error"}

\* {"patientInfo":{"birthDate":"1990-01-01"}}: analytics without an age
AgelessText ==
    <<"{", "\"", "patientInfo", "\"", ":", "{", "\"", "birthDate", "\"", ":",
      "\"", "1990-01-01", "\"", "}", "}">>

Bodies ==
    [response : {Null, <<"{", "}">>, <<" ", "{", "}", "\n">>, AgelessText},
     error : {Null, <<>>, <<"model 'gemma:2b' not found">>}]

FetchOutcomes ==
    {NoResponse}
        \cup {Response(st, tx, b) : st \in Statuses, tx \in StatusTexts, b \in Bodies}

Services == {"convertToFhir", "generateAnalytics", "answerQuestion"}

InitGateway ==
    /\ SessionInit
    /\ gwFetched \in FetchOutcomes
    /\ gwService \in Services \cup {"testOllamaConnection"}
    /\ gwCalled = Pending
    /\ gwResult = Pending
    /\ ExtractIdle

\* the service's callOllama call settles
GatewayCall ==
    /\ gwService \in Services
    /\ gwCalled = Pending
    /\ gwCalled' = callOllama(gwFetched)
    /\ UNCHANGED <<gwFetched, gwService, gwResult, sessionVars, tasks, lastEvent, failedIn, extractVars>>

\* the service settles
GatewayService ==
    /\ gwCalled # Pending
    /\ gwResult = Pending
    /\ gwResult' = CASE gwService = "convertToFhir" -> convertToFhir(gwCalled)
                     [] gwService = "generateAnalytics" -> generateAnalytics(gwCalled)
                     [] gwService = "answerQuestion" -> answerQuestion(gwCalled)
    /\ UNCHANGED <<gwFetched, gwService, gwCalled, sessionVars, tasks, lastEvent, failedIn, extractVars>>

\* the connectivity probe settles: it makes its own fetch of the endpoint
GatewayProbe ==
    /\ gwService = "testOllamaConnection"
    /\ gwResult = Pending
    /\ gwResult' = testOllamaConnection(gwFetched)
    /\ UNCHANGED <<gwFetched, gwService, gwCalled, sessionVars, tasks, lastEvent, failedIn, extractVars>>

NextGateway == GatewayCall \/ GatewayService \/ GatewayProbe

SpecGateway == InitGateway /\ [][NextGateway]_vars

(***************************************************************************)
(* The extraction on its own: cleanJsonOutput and convertToFhir applied to *)
(* the raw texts a call of callOllama can return.                          *)
(***************************************************************************)
\* the fragments a raw text is made of: brackets, a line break, prose and
\* the two fence markers
Pieces ==
    { <<"{">>, <<"}">>, <<"[">>, <<"]">>, <<"\n">>, <<"x">>, FenceOpen, FenceClose }

\* the texts made of n fragments
RECURSIVE Joined(_)
Joined(n) ==
    IF n = 0 THEN {<<>>}
    ELSE {p \o t : p \in Pieces, t \in Joined(n - 1)}

\* {"resourceType":"Bundle"}
BundleText ==
    <<"{", "\"", "resourceType", "\"", ":", "\"", "Bundle", "\"", "}">>

\* {"note":"```json x ```"}: a JSON object with a fence inside a string
QuotedFenceText ==
    <<"{", "\"", "note", "\"", ":", "\"">> \o FenceOpen \o <<" ", "x", " ">>
        \o FenceClose \o <<"\"", "}">>

\* longer raw texts: the fenced record alone, with prose around the fence,
\* with brackets in the prose; records with and without a fence inside
ScenarioTexts ==
    { FenceOpen \o <<"\n">> \o BundleText \o <<"\n">> \o FenceClose,
      <<"Here", " ", "it", " ", "is", ":", "\n">> \o FenceOpen \o <<"\n">> \o BundleText
          \o <<"\n">> \o FenceClose \o <<"\n", "Done", ".">>,
      <<"[", "1", "]", " ">> \o FenceOpen \o BundleText \o <<" ", "\n">> \o FenceClose
          \o <<" ", "{", "x">>,
      BundleText,
      <<"Sure", ":", " ">> \o BundleText \o <<" ", "ok">>,
      <<"[", "1", ",", " ", "2", "]">>,
      QuotedFenceText,
      FenceOpen \o <<"\n", "hello", "\n">> \o FenceClose }

RawTexts == UNION {Joined(n) : n \in 0..MaxPieces} \cup ScenarioTexts

InitExtract ==
    /\ SessionInit
    /\ GatewayIdle
    /\ exRaw \in RawTexts
    /\ exCleaned = Pending
    /\ exRecleaned = Pending
    /\ exConverted = Pending

\* cleanJsonOutput(rawJson)
Extract ==
    /\ exCleaned = Pending
    /\ exCleaned' = cleanJsonOutput(exRaw)
    /\ UNCHANGED <<exRaw, exRecleaned, exConverted, sessionVars, tasks, lastEvent, failedIn, gatewayVars>>

\* cleanJsonOutput applied to the text it returned
ExtractAgain ==
    /\ exCleaned.kind = "return"
    /\ exRecleaned = Pending
    /\ exRecleaned' = cleanJsonOutput(exCleaned.text)
    /\ UNCHANGED <<exRaw, exCleaned, exConverted, sessionVars, tasks, lastEvent, failedIn, gatewayVars>>

\* convertToFhir whose callOllama call returned the raw text
Convert ==
    /\ exConverted = Pending
    /\ exConverted' = convertToFhir(Return(exRaw))
    /\ UNCHANGED <<exRaw, exCleaned, exRecleaned, sessionVars, tasks, lastEvent, failedIn, gatewayVars>>

NextExtract == Extract \/ ExtractAgain \/ Convert

SpecExtract == InitExtract /\ [][NextExtract]_vars

(***************************************************************************)
(* Properties of the session (specification Spec).                         *)
(***************************************************************************)
\* the transition table: <<from, to, the handlers that may take the edge>>
TableEdges ==
    {<<"IDLE", "CONVERTING", "handleFileConvert">>,
     <<"CONVERTING", "CONVERTED", "convertToFhir">>,
     <<"CONVERTING", "ERROR", "convertToFhir">>,
     <<"CONVERTING", "ERROR", "convertFileToBase64">>,
     <<"CONVERTED", "ANALYZING", "handleSaveToFhir">>,
     <<"ANALYZING", "SAVED", "generateAnalytics">>,
     <<"ANALYZING", "ERROR", "generateAnalytics">>,
     <<"SAVED", "CHATTING", "handleSendMessage">>,
     <<"CHATTING", "SAVED", "answerQuestion">>,
     <<"ERROR", "CONVERTING", "retryTimer">>}
        \cup {<<from, "IDLE", "handleReset">> : from \in AppStates}

\* C1: every change of the phase is an edge of the transition table, taken
\* by the trigger the table names; in particular ERROR is entered only
\* from CONVERTING or ANALYZING.
C1_PhaseChangesFollowTable ==
    [][appState' # appState =>
          <<appState, appState', lastEvent'.op>> \in TableEdges]_vars

\* the step is the completion of a gateway call whose session was reset
StaleCallCompletes ==
    \E t \in BagToSet(tasks) :
        /\ t.stale
        /\ t.kind \in {"convert", "analyze", "chat"}
        /\ tasks' = Finished(t)

\* C2: the outcome of a call that completes after its session was reset is
\* discarded: phase, record, analytics, chat history and stored errors are
\* what they were just before the completion.
C2_StaleOutcomeDiscarded ==
    [][StaleCallCompletes =>
          UNCHANGED <<appState, fhirJson, analyticsData, chatHistory, error, ollamaError>>]_vars

\* C3: at most one Model Gateway call is in flight.
C3_OneCallInFlight == GatewayCalls <= 1

\* C4: while the phase is IDLE, CONVERTING or ANALYZING neither the save
\* action nor the chat-send action is enabled.
C4_SaveAndSendGated ==
    appState \in {"IDLE", "CONVERTING", "ANALYZING"} =>
        /\ ~ENABLED handleSaveToFhir
        /\ ~ENABLED (\E input \in ChatInputs : handleSendMessage(input))

\* reached: an analysis is running on a stored, unsaved record and the
\* bound on continuations would admit one more
C4_Witness ==
    /\ appState = "ANALYZING"
    /\ ~Falsy(fhirJson)
    /\ ~isSaved
    /\ BagCardinality(tasks) < MaxTasks

\* the description a failed chat turn shows: the message of the transport
\* or server error, and the wrapped message of any other error
ChatFailureText(err) ==
    IF err.name \in {"OllamaCorsError", "OllamaServerError"} THEN err.message
    ELSE <<"The AI model failed to answer the question. Details: ">> \o err.message

\* C5: a chat turn whose gateway call fails ends with phase SAVED and with
\* exactly one assistant message, carrying the error description, appended
\* to the chat history; the stored errors are left as they were.
C5_ChatFailureStaysInChat ==
    [][(lastEvent'.op = "answerQuestion" /\ lastEvent'.settled.kind = "throw") =>
          /\ appState' = "SAVED"
          /\ chatHistory' = Append(chatHistory,
                 [sender |-> "bot", text |-> ChatFailureText(lastEvent'.settled.err)])
          /\ error' = error
          /\ ollamaError' = ollamaError]_vars

\* reached: greeting, question and the server error shown as the reply
C5_Witness ==
    /\ lastEvent.op = "answerQuestion"
    /\ lastEvent.settled.kind = "throw"
    /\ lastEvent.settled.err.name = "OllamaServerError"
    /\ appState = "SAVED"
    /\ Len(chatHistory) = 3
    /\ chatHistory[2].sender = "user"
    /\ chatHistory[3] = [sender |-> "bot", text |-> lastEvent.settled.err.message]
    /\ error = NoError

\* C6: when the gateway call of a conversion or an analysis fails, the
\* phase becomes ERROR and the stored error carries the classification:
\* the transport error with its instructions, the server error with its
\* diagnostic text, a generic Error otherwise.
C6_CallFailureClassified ==
    [][(/\ lastEvent'.op \in {"convertToFhir", "generateAnalytics"}
        /\ lastEvent'.settled.kind = "throw") =>
          LET err == lastEvent'.settled.err
          IN /\ appState' = "ERROR"
             /\ err.name = "OllamaCorsError" =>
                    /\ ollamaError' = err
                    /\ ollamaError'.details # NoDetails
             /\ err.name = "OllamaServerError" =>
                    /\ error' = err
                    /\ IndexOf(error'.message, <<"500", " ", "Internal Server Error">>) # -1
             /\ err.name \notin {"OllamaCorsError", "OllamaServerError"} =>
                    /\ error'.name = "Error"
                    /\ IndexOf(error'.message, err.message) # -1]_vars

\* reached: an analysis failed with a server error, now stored
C6_Witness ==
    /\ lastEvent.op = "generateAnalytics"
    /\ lastEvent.settled.kind = "throw"
    /\ lastEvent.settled.err.name = "OllamaServerError"
    /\ appState = "ERROR"
    /\ error = lastEvent.settled.err

\* the session holds nothing: no file, record, analytics, conversation,
\* saved flag or stored error
SessionEmpty ==
    /\ file = NoFile
    /\ fhirJson = Null
    /\ analyticsData = Null
    /\ chatHistory = <<>>
    /\ isSaved = FALSE
    /\ error = NoError
    /\ ollamaError = NoError

\* C16 as stated: reset is enabled in every phase.
C16_ResetFromEveryPhase == ENABLED handleReset

\* C16, amended: reset is enabled in every phase but IDLE, where the
\* session holds nothing; right after a reset the phase is IDLE and the
\* session holds nothing.
C16_ResetClearsSession ==
    /\ [](appState # "IDLE" => ENABLED handleReset)
    /\ [](appState = "IDLE" => SessionEmpty)
    /\ [][lastEvent'.op = "handleReset" => (appState' = "IDLE" /\ SessionEmpty')]_vars

\* reached: the session was reset in the middle of a chat turn
C16_Witness ==
    /\ lastEvent.op = "handleReset"
    /\ appState = "IDLE"
    /\ SessionEmpty
    /\ \E t \in BagToSet(tasks) : t.kind = "chat" /\ t.stale

\* the step starts a conversion: handleFileConvert runs up to its await
ConversionStarts ==
    /\ lastEvent'.op \in {"handleFileConvert", "retryTimer"}
    /\ \E f \in Files :
           CopiesIn(Task("read", f, Null), tasks') > CopiesIn(Task("read", f, Null), tasks)

\* nothing of an earlier conversion is present
PriorResultsCleared ==
    /\ fhirJson = Null
    /\ analyticsData = Null
    /\ chatHistory = <<>>
    /\ error = NoError
    /\ ollamaError = NoError

C22_InFlightPhasesAreLeft ==
    /\ (appState = "CONVERTING")
           ~> (appState \in {"CONVERTED", "ERROR"} \/ lastEvent.op = "handleReset")
    /\ (appState = "ANALYZING")
           ~> (appState \in {"SAVED", "ERROR"} \/ lastEvent.op = "handleReset")
    /\ (appState = "CHATTING")
           ~> (appState = "SAVED" \/ lastEvent.op = "handleReset")

\* reached: a chat turn whose call failed to connect is over
C22_Witness ==
    /\ lastEvent.op = "answerQuestion"
    /\ lastEvent.settled.kind = "throw"
    /\ lastEvent.settled.err.name = "OllamaCorsError"
    /\ appState = "SAVED"
    /\ InFlight("chat") = {}

\* what the service named by op makes of the settlement of its call
ServiceOutcome(op, called) ==
    CASE op = "convertToFhir" -> convertToFhir(called)
      [] op = "generateAnalytics" -> generateAnalytics(called)
      [] op = "answerQuestion" -> answerQuestion(called)

C26_ChatTurnAsksWithPriorTurns ==
    [][lastEvent'.op = "handleSendMessage" =>
          LET prompt == answerQuestionPrompt(lastEvent'.args.fhirJson,
                                             lastEvent'.args.history)
          IN /\ prompt.data = fhirJson
             /\ prompt.previous = chatHistory
             /\ chatHistory' = Append(prompt.previous, Message("user", prompt.userQuestion))]_vars

\* reached: a question was asked with a previous conversation of two turns
C26_Witness ==
    /\ lastEvent.op = "handleSendMessage"
    /\ appState = "CHATTING"
    /\ Len(lastEvent.args.history) >= 3
    /\ lastEvent.args.history = chatHistory
    /\ lastEvent.args.fhirJson = fhirJson

C30_ErrorPhaseIffErrorStored ==
    /\ appState = "ERROR" <=> (error # NoError \/ ollamaError # NoError)
    /\ ~(error # NoError /\ ollamaError # NoError)

\* C31: while the phase is IDLE neither the settling of a connectivity test
\* nor the firing of its timer changes the phase or starts a file read.
C31_IdleUntilFileSelected ==
    [][(appState = "IDLE" /\ lastEvent'.op \in {"testOllamaConnection", "retryTimer"}) =>
          /\ appState' = "IDLE"
          /\ InFlight("read")' = InFlight("read")]_vars

\* C32: in the phase IDLE the session holds no file, record, analytics,
\* conversation, saved flag or stored error, also while calls started
\* before a reset settle.
C32_IdleHoldsNothing ==
    appState = "IDLE" => SessionEmpty

\* reached: after a reset the file read of the abandoned conversion
\* resolved, its service call is in flight, and the phase is IDLE
C32_Witness ==
    /\ appState = "IDLE"
    /\ lastEvent.op = "convertFileToBase64"
    /\ \E t \in InFlight("convert") : t.stale

\* the greeting first, then user and bot messages in turn
ChatWellFormed ==
    chatHistory # <<>> =>
        /\ chatHistory[1] = initialBotMessage
        /\ \A i \in 2..Len(chatHistory) :
               chatHistory[i].sender = IF i % 2 = 0 THEN "user" ELSE "bot"

ClassifiedNames == {"OllamaCorsError", "OllamaServerError", "Error"}

\* C11: convertToFhir either returns a text that parses as JSON or fails
\* with a classified error; the stored record, when there is one, parses
\* as JSON, and the phase becomes CONVERTED only together with a record
\* that parses.
C11_RecordParsesAsJson ==
    /\ [](fhirJson # Null => ParsesAsJson(fhirJson))
    /\ [][lastEvent'.op = "convertToFhir" =>
            LET generated == convertToFhir(lastEvent'.settled)
            IN /\ generated.kind = "return" => ParsesAsJson(generated.text)
               /\ generated.kind = "throw" => generated.err.name \in ClassifiedNames
               /\ appState' = "CONVERTED" =>
                      /\ generated.kind = "return"
                      /\ fhirJson' = generated.text
                      /\ ParsesAsJson(fhirJson')]_vars

\* reached: the record extracted from prose is stored and the phase is
\* CONVERTED
C11_Witness ==
    /\ lastEvent.op = "convertToFhir"
    /\ lastEvent.settled = Return(<<"o", "k", " ", "{", "}">>)
    /\ appState = "CONVERTED"
    /\ fhirJson = <<"{", "}">>

(***************************************************************************)
(* Properties of the gateway (specification SpecGateway).                  *)
(***************************************************************************)
\* C7: callOllama fails with the transport error exactly when fetch
\* delivered no response at all.
C7_TransportIffNoResponse ==
    gwCalled # Pending =>
        ((gwCalled.kind = "throw" /\ gwCalled.err.name = "OllamaCorsError")
            <=> gwFetched.kind = "noResponse")

\* C8: a success status with a `response` text and no `error` field makes
\* callOllama return that text verbatim.
C8_ResponseReturnedVerbatim ==
    (/\ gwCalled # Pending
     /\ gwFetched.kind = "response"
     /\ gwFetched.status \in 200..299
     /\ gwFetched.body.response # Null
     /\ gwFetched.body.error = Null) =>
        gwCalled = [kind |-> "return", text |-> gwFetched.body.response, err |-> NoError]

\* C9: a non-success status makes callOllama fail with the server error,
\* whose message embeds the status code and the status text, and the
\* service that made the call passes that error on unchanged.
C9_ServerFaultOnBadStatus ==
    (/\ gwCalled # Pending
     /\ gwFetched.kind = "response"
     /\ gwFetched.status \notin 200..299) =>
        /\ gwCalled.kind = "throw"
        /\ gwCalled.err.name = "OllamaServerError"
        /\ IndexOf(gwCalled.err.message,
                   <<ToString(gwFetched.status), " ", gwFetched.statusText>>) # -1
        /\ gwResult # Pending => gwResult = gwCalled

\* reached: a 404 went through callOllama and through the service
C9_Witness ==
    /\ gwFetched.kind = "response"
    /\ gwFetched.status = 404
    /\ gwCalled.kind = "throw"
    /\ gwResult.kind = "throw"
    /\ gwResult.err.name = "OllamaServerError"

\* C23: the connectivity probe answers true exactly when fetch delivered a
\* response, whatever its status, answers false when there was none, and
\* never settles by raising an error.
C23_ProbeTrueIffResponse ==
    (gwService = "testOllamaConnection" /\ gwResult # Pending) =>
        /\ gwResult.kind = "return"
        /\ gwResult.text \in {<<"true">>, <<"false">>}
        /\ gwResult.text = <<"true">> <=> gwFetched.kind = "response"
        /\ gwResult.text = <<"false">> <=> gwFetched.kind = "noResponse"

\* reached: the probe answered true to a 404
C23_Witness ==
    /\ gwService = "testOllamaConnection"
    /\ gwFetched.kind = "response"
    /\ gwFetched.status = 404
    /\ gwResult = Return(<<"true">>)

\* does the parsed value, given by its token text, have a member named key
HasKey(value, key) == IndexOf(value, <<"\"", key, "\"", ":">>) # -1

\* C24: when the analysis model's output has a birthDate and no age,
\* generateAnalytics succeeds and the value it returns has the birthDate
\* and no age member.
C24_MissingFieldAbsent ==
    (/\ gwService = "generateAnalytics"
     /\ gwResult # Pending
     /\ gwFetched.kind = "response"
     /\ gwFetched.status = 200
     /\ gwFetched.body = [response |-> AgelessText, error |-> Null]) =>
        /\ gwResult.kind = "return"
        /\ HasKey(gwResult.text, "birthDate")
        /\ ~HasKey(gwResult.text, "age")

\* C10: HTTP 200 with an `error` text in the body makes callOllama fail
\* with the server error.
C10_ServerFaultOnErrorField ==
    (/\ gwCalled # Pending
     /\ gwFetched.kind = "response"
     /\ gwFetched.status = 200
     /\ gwFetched.body.error \notin {Null, <<>>}) =>
        /\ gwCalled.kind = "throw"
        /\ gwCalled.err.name = "OllamaServerError"

(***************************************************************************)
(* Properties of the extraction (specification SpecExtract).               *)
(***************************************************************************)
\* t is a JSON object or array and nothing else: it parses, starts with
\* an opening bracket and ends with a closing one
IsCleanJson(t) ==
    /\ Len(t) > 0
    /\ t[1] \in {"{", "["}
    /\ t[Len(t)] \in {"}", "]"}
    /\ ParsesAsJson(t)

\* C12: on a text that is a JSON object or array, cleanJsonOutput returns
\* the text itself, and applied to its own result it returns it again.
C12_ExtractIdempotent ==
    IsCleanJson(exRaw) =>
        /\ exCleaned # Pending => exCleaned = Return(exRaw)
        /\ exRecleaned # Pending => exRecleaned = exCleaned

HasOpeningBracket(t) == \E i \in 1..Len(t) : t[i] \in {"{", "["}

\* C13: on a raw text without an opening bracket cleanJsonOutput throws;
\* it returns no text, whether or not the raw text holds a fenced block.
C13_NoBracketFails ==
    (exCleaned # Pending /\ ~HasOpeningBracket(exRaw)) =>
        exCleaned.kind = "throw"

\* the closing bracket that matches an opening one
Closer(c) == IF c = "{" THEN "}" ELSE "]"

\* the span from the first opening bracket at index start to the last
\* closing bracket of its kind, when there is one after it
MatchedSpan(t, start) ==
    IF start = -1 THEN <<FALSE, <<>>>>
    ELSE IF LastIndexOf(t, <<Closer(At(t, start))>>) < start THEN <<FALSE, <<>>>>
    ELSE <<TRUE, SubSeq(t, start + 1, LastIndexOf(t, <<Closer(At(t, start))>>) + 1)>>

\* the index of the first opening bracket of either kind, or -1
FirstOpening(t) == FirstOf({i \in 0..(Len(t) - 1) : At(t, i) \in {"{", "["}})

\* C14: on a raw text without a fenced block cleanJsonOutput returns the
\* span from the first opening bracket to the last closing bracket that
\* matches it, and throws when there is no such pair.
C14_SpanOfMatchingBrackets ==
    (exCleaned # Pending /\ ~FenceMatch(exRaw).matched) =>
        IF MatchedSpan(exRaw, FirstOpening(exRaw))[1]
        THEN exCleaned = Return(MatchedSpan(exRaw, FirstOpening(exRaw))[2])
        ELSE exCleaned.kind = "throw"

\* the raw text holds one fenced block and no other backtick: the first
\* backticks open the fence and the last ones close it
OneFence(t) ==
    /\ IndexOf(t, FenceOpen) # -1
    /\ IndexOf(t, FenceClose) = IndexOf(t, FenceOpen)
    /\ LastIndexOf(t, FenceOpen) = IndexOf(t, FenceOpen)
    /\ LastIndexOf(t, FenceClose) >= IndexOf(t, FenceOpen) + Len(FenceOpen)
    /\ IndexOfFrom(t, FenceClose, IndexOf(t, FenceOpen) + 1) = LastIndexOf(t, FenceClose)

\* what stands between the fence markers, without the whitespace around it
FenceContent(t) ==
    Trim(SubSeq(t, IndexOf(t, FenceOpen) + Len(FenceOpen) + 1, LastIndexOf(t, FenceClose)))

\* the raw text is a fenced block around a JSON object, with or without
\* prose around the fence
FencedObject(t) ==
    /\ OneFence(t)
    /\ FenceContent(t) # <<>>
    /\ FenceContent(t)[1] = "{"
    /\ ParsesAsJson(FenceContent(t))

=============================================================================
